---- MODULE Spec2Model ----
(***************************************************************************)
(* The Historical Court: workflow_agents/agent.py.                         *)
(*                                                                         *)
(* A session state store (field name -> value), three tools that read and  *)
(* write it (update_research_data, set_state_value, write_verdict_file),   *)
(* and a tree of agents over it:                                           *)
(*   root_agent = Sequential[inquiry_agent,                                *)
(*                           trial_loop = Loop[investigation_team =        *)
(*                               Parallel[admirer_agent, critic_agent],    *)
(*                               judge_agent],                             *)
(*                           verdict_writer]                               *)
(*                                                                         *)
(* Strings are sequences of one-character strings.  A store value is a     *)
(* tagged record: absent, None, a string, or a list of strings.            *)
(***************************************************************************)
EXTENDS Integers, Sequences, FiniteSets, TLC

VARIABLES
    state,      \* tool_context.state: field -> value
    files,      \* court_records/: set of <<file name, content>>
    status,     \* node -> "idle" | "running" | "in_update" | "done"
    outcome,    \* node -> "none" | "Completed" | "Terminated"
    pos,        \* composite -> index of the child it is at
    live,       \* composite -> its child (children) at pos has been started
    iteration,  \* times the body of trial_loop has completed
    loopState,  \* "Idle" | "Running" | "Terminated" | "Exhausted"
    ncalls,     \* agent -> tool calls it has dispatched in the run
    cur,        \* agent -> current_data local of update_research_data
    fld,        \* agent -> field argument of the call in progress
    seen,       \* agent -> the store its instruction was rendered from
    runs,       \* node -> number of times it was started            (history)
    nApp,       \* agent -> field -> appends it has completed        (history)
    calls,      \* field -> contents appended by tool calls, in order (history)
    initial,    \* the store the tool calls started from             (history)
    lastRead,   \* the latest read of an absent field by a tool      (history)
    lastTool,   \* the latest complete tool call and its result      (history)
    failed      \* agent -> tool dispatches of it that failed        (history)

vars == <<state, files, status, outcome, pos, live, iteration, loopState,
          ncalls, cur, fld, seen, runs, nApp, calls, initial, lastRead, lastTool,
          failed>>

----------------------------------------------------------------------------
(* Bounds of the model                                                     *)

\* tool calls that touch the store or the files, in one workflow run
MaxCalls == 3

\* tool calls of one run of the tool driver (StoreSpec)
MaxToolCalls == 3
MaxLabelLen == 4

----------------------------------------------------------------------------
(* Strings and store values                                                *)

Fields == {"PROMPT", "pos_data", "neg_data", "judge_feedback"}

Absent == [kind |-> "absent"]
NoneV == [kind |-> "none"]
Str(s) == [kind |-> "str", s |-> s]
List(l) == [kind |-> "list", l |-> l]
Error == [kind |-> "error"]

EmptyStore == [f \in Fields |-> Absent]

\* the separator of update_research_data: "\n\n---\n"
SEP == <<"\n", "\n", "-", "-", "-", "\n">>

RECURSIVE Join(_, _)
\* sep.join(l) for a sequence l of strings
Join(sep, l) ==
    IF l = <<>> THEN <<>>
    ELSE IF Len(l) = 1 THEN l[1]
    ELSE l[1] \o sep \o Join(sep, Tail(l))

\* (variant: state[field], which raises on a missing field)
StateGetMissingRaises(st, field, default) ==
    IF st[field] = Absent THEN Error ELSE st[field]

\* tool_context.state.get(field, default)
StateGet(st, field, default) ==
    IF st[field] = Absent THEN default ELSE st[field]

\* (variant: the store is replaced by one holding the field alone)
StateSetReplacesStore(st, field, value) ==
    [f \in Fields |-> IF f = field THEN value ELSE Absent]

\* tool_context.state[field] = value
StateSet(st, field, value) ==
    [st EXCEPT ![field] = value]

----------------------------------------------------------------------------
(* update_research_data                                                    *)

\* current_data = tool_context.state.get(field, "")
ReadCurrentData(st, field) ==
    StateGet(st, field, Str(<<>>))

\* (variant: the elements of a list are joined with nothing between them)
NormalizeJoinsBare(current_data) ==
    IF current_data.kind = "none" THEN Str(<<>>)
    ELSE IF current_data.kind = "list"
         THEN Str(Join(<<>>, current_data.l))
    ELSE current_data

\* None becomes "", a list is joined with "\n"; a read that raised stays raised
Normalize(current_data) ==
    IF current_data.kind = "none" THEN Str(<<>>)
    ELSE IF current_data.kind = "list"
         THEN Str(Join(<<"\n">>, current_data.l))
    ELSE current_data

\* current_data as line 42 uses it: a string
CurrentData(st, field) ==
    Normalize(ReadCurrentData(st, field))

\* f"{current_data}\n\n---\n{new_info}"
UpdatedData(current_data, new_info) ==
    current_data \o SEP \o new_info

\* the whole call, run without interruption
update_research_data(st, field, new_info) ==
    IF CurrentData(st, field) = Error THEN st
    ELSE StateSet(st, field,
                  Str(UpdatedData(CurrentData(st, field).s, new_info)))

----------------------------------------------------------------------------
(* set_state_value                                                         *)

\* (variant: the value is appended, as update_research_data does)
set_state_value_appends(st, field, value) ==
    update_research_data(st, field, value)

\* tool_context.state[field] = value
set_state_value(st, field, value) ==
    StateSet(st, field, Str(value))

----------------------------------------------------------------------------
(* write_verdict_file                                                      *)

Alnum ==
    {"a", "b", "c", "d", "e", "f", "g", "h", "i", "j", "k", "l", "m",
     "n", "o", "p", "q", "r", "s", "t", "u", "v", "w", "x", "y", "z",
     "A", "B", "C", "D", "E", "F", "G", "H", "I", "J", "K", "L", "M",
     "N", "O", "P", "Q", "R", "S", "T", "U", "V", "W", "X", "Y", "Z",
     "0", "1", "2", "3", "4", "5", "6", "7", "8", "9"}

\* the default topic, "unknown_subject"
UnknownSubject ==
    <<"u", "n", "k", "n", "o", "w", "n", "_",
      "s", "u", "b", "j", "e", "c", "t">>

\* topic = tool_context.state.get("PROMPT", "unknown_subject")
ReadTopic(st) ==
    StateGet(st, "PROMPT", Str(UnknownSubject))

\* a list gives its last element (an empty list raises IndexError); None
\* reaches re.sub and raises TypeError
Topic(st) ==
    LET topic == ReadTopic(st)
    IN  IF topic.kind = "list"
        THEN IF topic.l = <<>> THEN Error ELSE Str(topic.l[Len(topic.l)])
        ELSE IF topic.kind = "none" THEN Error
        ELSE topic

\* re.sub(r'[^a-zA-Z0-9]', '_', topic)
ReplaceSpecial(s) ==
    [i \in 1..Len(s) |-> IF s[i] \in Alnum THEN s[i] ELSE "_"]

RECURSIVE CollapseUnderscores(_)
\* re.sub(r'_+', '_', s)
CollapseUnderscores(s) ==
    IF Len(s) < 2 THEN s
    ELSE IF s[1] = "_" /\ s[2] = "_" THEN CollapseUnderscores(Tail(s))
    ELSE <<s[1]>> \o CollapseUnderscores(Tail(s))

RECURSIVE StripUnderscores(_)
\* s.strip('_')
StripUnderscores(s) ==
    IF s = <<>> THEN s
    ELSE IF s[1] = "_" THEN StripUnderscores(Tail(s))
    ELSE IF s[Len(s)] = "_" THEN StripUnderscores(SubSeq(s, 1, Len(s) - 1))
    ELSE s

\* (variant: without the strip('_') of line 57)
CleanNameUnstripped(topic) ==
    CollapseUnderscores(ReplaceSpecial(topic))

\* clean_name, lines 56-57
CleanName(topic) ==
    StripUnderscores(CollapseUnderscores(ReplaceSpecial(topic)))

\* f"{clean_name}.txt"
FileName(topic) ==
    CleanName(topic) \o <<".", "t", "x", "t">>

\* os.path.join("court_records", filename)
TargetPath(topic) ==
    <<"court_records", FileName(topic)>>

\* open(target_path, "w").write(content): the file is created or replaced
WriteFile(fs, name, content) ==
    {e \in fs : e[1] # name} \cup {<<name, content>>}

----------------------------------------------------------------------------
(* The agents and the tree they are composed into                          *)

Agents ==
    {"inquiry_agent", "admirer_agent", "critic_agent", "judge_agent",
     "verdict_writer"}

Composites == {"root_agent", "trial_loop", "investigation_team"}

Nodes == Agents \cup Composites

\* (variant: exit_loop given to the two researchers as well)
ToolsExitLoopForAll(a) ==
    CASE a = "admirer_agent" ->
             {"wiki_tool", "update_research_data", "exit_loop"}
      [] a = "critic_agent" ->
             {"wiki_tool", "update_research_data", "exit_loop"}
      [] a = "judge_agent" -> {"update_research_data", "exit_loop"}
      [] a = "verdict_writer" -> {"write_verdict_file"}
      [] a = "inquiry_agent" -> {"set_state_value"}

\* (variant: set_state_value given to the two researchers as well)
ToolsSetStateForResearchers(a) ==
    CASE a = "admirer_agent" ->
             {"wiki_tool", "update_research_data", "set_state_value"}
      [] a = "critic_agent" ->
             {"wiki_tool", "update_research_data", "set_state_value"}
      [] a = "judge_agent" -> {"update_research_data", "exit_loop"}
      [] a = "verdict_writer" -> {"write_verdict_file"}
      [] a = "inquiry_agent" -> {"set_state_value"}

\* tools=[...] of each Agent(...)
Tools(a) ==
    CASE a = "admirer_agent" -> {"wiki_tool", "update_research_data"}
      [] a = "critic_agent" -> {"wiki_tool", "update_research_data"}
      [] a = "judge_agent" -> {"update_research_data", "exit_loop"}
      [] a = "verdict_writer" -> {"write_verdict_file"}
      [] a = "inquiry_agent" -> {"set_state_value"}

\* (variant: the judge placed in the parallel team)
investigation_team_with_judge ==
    <<"admirer_agent", "critic_agent", "judge_agent">>

\* investigation_team = ParallelAgent(sub_agents=[admirer_agent, critic_agent])
investigation_team_sub_agents == <<"admirer_agent", "critic_agent">>

\* (variant: the body without the judge)
trial_loop_without_judge == <<"investigation_team">>

\* (variant: the judge placed before the investigation)
trial_loop_judge_first == <<"judge_agent", "investigation_team">>

\* trial_loop = LoopAgent(sub_agents=[investigation_team, judge_agent], ...)
trial_loop_sub_agents == <<"investigation_team", "judge_agent">>

\* (variant: the bound off by one)
max_iterations_off_by_one == 3 - 1

\* (variant: one more body execution allowed)
max_iterations_one_more == 3 + 1

\* trial_loop = LoopAgent(..., max_iterations=3)
max_iterations == 3

\* (variant: the judge placed in the root sequence, outside any loop)
root_agent_judge_outside_loop ==
    <<"inquiry_agent", "trial_loop", "judge_agent", "verdict_writer">>

\* (variant: the verdict written before the trial)
root_agent_verdict_first == <<"inquiry_agent", "verdict_writer", "trial_loop">>

\* root_agent = SequentialAgent(sub_agents=[inquiry_agent, trial_loop,
\* verdict_writer])
root_agent_sub_agents == <<"inquiry_agent", "trial_loop", "verdict_writer">>

SubAgents(c) ==
    CASE c = "root_agent" -> root_agent_sub_agents
      [] c = "trial_loop" -> trial_loop_sub_agents
      [] c = "investigation_team" -> investigation_team_sub_agents

Range(q) == {q[i] : i \in 1..Len(q)}

RECURSIVE Sum(_, _)
Sum(fn, S) ==
    IF S = {} THEN 0
    ELSE LET x == CHOOSE y \in S : TRUE IN fn[x] + Sum(fn, S \ {x})

\* tool calls dispatched so far, all agents together
TotalCalls(nc) == Sum(nc, Agents)

\* What the agents pass to their tools.  The instructions name the field each
\* agent saves to; the admirer is also let save to the critic's field, so that
\* the two children of the team can meet on one field.
FieldChoices(a) ==
    CASE a = "admirer_agent" -> {"pos_data", "neg_data"}
      [] a = "critic_agent" -> {"neg_data"}
      [] a = "judge_agent" -> {"judge_feedback"}
      [] OTHER -> {}

\* new_info of the agent's update_research_data calls
Text(a) ==
    CASE a = "admirer_agent" -> <<"P">>
      [] a = "critic_agent" -> <<"N">>
      [] OTHER -> <<"F">>

\* subjects the inquiry agent may save to 'PROMPT'
Topics == {<<"N", "e", "r", "o">>}

\* content of the verdict
Verdict == <<"V">>

----------------------------------------------------------------------------
(* Initial state of a workflow run                                         *)

NoRead == [site |-> "none", field |-> "none", result |-> Absent]
NoTool ==
    [name |-> "none", n |-> 0, field |-> "none", arg |-> <<>>,
     prior |-> "absent", ok |-> TRUE, path |-> <<>>]

Init ==
    /\ state = EmptyStore
    /\ files = {}
    /\ status = [n \in Nodes |-> IF n = "root_agent" THEN "running" ELSE "idle"]
    /\ outcome = [n \in Nodes |-> "none"]
    /\ pos = [c \in Composites |-> 1]
    /\ live = [c \in Composites |-> FALSE]
    /\ iteration = 0
    /\ loopState = "Idle"
    /\ ncalls = [a \in Agents |-> 0]
    /\ cur = [a \in Agents |-> <<>>]
    /\ fld = [a \in Agents |-> "none"]
    /\ seen = [a \in Agents |-> EmptyStore]
    /\ runs = [n \in Nodes |-> 0]
    /\ nApp = [a \in Agents |-> [f \in Fields |-> 0]]
    /\ calls = [f \in Fields |-> <<>>]
    /\ initial = EmptyStore
    /\ lastRead = NoRead
    /\ lastTool = NoTool
    /\ failed = [a \in Agents |-> 0]

toolHistory == <<calls, initial, lastTool>>
history == <<toolHistory, failed>>
loopVars == <<iteration, loopState>>
agentLocals == <<ncalls, cur, fld>>

----------------------------------------------------------------------------
(* Composites                                                              *)

\* Parent starts the nodes of S: each takes a fresh step (an agent renders its
\* instruction from the store as it is now), a composite starts at its first
\* child, and trial_loop starts counting at zero.
StartNodes(parent, S) ==
    /\ status' = [n \in Nodes |-> IF n \in S THEN "running" ELSE status[n]]
    /\ outcome' = [n \in Nodes |-> IF n \in S THEN "none" ELSE outcome[n]]
    /\ runs' = [n \in Nodes |-> IF n \in S THEN runs[n] + 1 ELSE runs[n]]
    /\ UNCHANGED ncalls
    /\ seen' = [a \in Agents |-> IF a \in S THEN state ELSE seen[a]]
    /\ pos' = [c \in Composites |-> IF c \in S THEN 1 ELSE pos[c]]
    /\ live' = [c \in Composites |->
                   IF c = parent THEN TRUE
                   ELSE IF c \in S THEN FALSE ELSE live[c]]
    /\ loopState' = IF "trial_loop" \in S THEN "Running" ELSE loopState
    /\ iteration' = IF "trial_loop" \in S THEN 0 ELSE iteration
    /\ UNCHANGED <<state, files, cur, fld, nApp, lastRead, history>>

\* composite c ends and reports o to its parent
Finish(c, o) ==
    /\ status' = [status EXCEPT ![c] = "done"]
    /\ outcome' = [outcome EXCEPT ![c] = o]
    /\ live' = [live EXCEPT ![c] = FALSE]

CurrentChild(c) == SubAgents(c)[pos[c]]

\* a sequential or loop composite starts its next child
StartChild(c) ==
    /\ status[c] = "running"
    /\ ~live[c]
    /\ pos[c] <= Len(SubAgents(c))
    /\ StartNodes(c, {CurrentChild(c)})

(* SequentialComposer: the child at pos has ended.  A termination signal is
   passed on to the parent; otherwise the next child is due, and after the
   last child the composite completes. *)
RootChildDone ==
    LET c == "root_agent" IN
    /\ status[c] = "running"
    /\ live[c]
    /\ status[CurrentChild(c)] = "done"
    /\ IF outcome[CurrentChild(c)] = "Terminated"
       THEN Finish(c, "Terminated") /\ UNCHANGED pos
       ELSE IF pos[c] = Len(SubAgents(c))
       THEN Finish(c, "Completed") /\ UNCHANGED pos
       ELSE /\ pos' = [pos EXCEPT ![c] = pos[c] + 1]
            /\ live' = [live EXCEPT ![c] = FALSE]
            /\ UNCHANGED <<status, outcome>>
    /\ UNCHANGED <<state, files, loopVars, agentLocals, seen, runs, nApp,
                   lastRead, history>>

RootStartChild == StartChild("root_agent")

(* ConditionalLoopComposer: what the loop does when a child of its body has
   ended with outcome o, being at child p of len with it body executions
   completed.  A signal ends the loop (Terminated) as a normal completion;
   the end of the body counts one iteration, and the bound ends the loop
   (Exhausted). *)
LoopAfterChild(o, p, len, it) ==
    IF o = "Terminated"
    THEN [loopState |-> "Terminated", pos |-> p, iteration |-> it]
    ELSE IF p < len
    THEN [loopState |-> "Running", pos |-> p + 1, iteration |-> it]
    ELSE IF it + 1 >= max_iterations
    THEN [loopState |-> "Exhausted", pos |-> p, iteration |-> it + 1]
    ELSE [loopState |-> "Running", pos |-> 1, iteration |-> it + 1]

LoopChildDone ==
    LET c == "trial_loop"
        nx == LoopAfterChild(outcome[CurrentChild(c)], pos[c],
                             Len(SubAgents(c)), iteration)
    IN
    /\ status[c] = "running"
    /\ live[c]
    /\ status[CurrentChild(c)] = "done"
    /\ loopState' = nx.loopState
    /\ iteration' = nx.iteration
    /\ pos' = [pos EXCEPT ![c] = nx.pos]
    /\ IF nx.loopState = "Running"
       THEN /\ live' = [live EXCEPT ![c] = FALSE]
            /\ UNCHANGED <<status, outcome>>
       ELSE Finish(c, "Completed")
    /\ UNCHANGED <<state, files, agentLocals, seen, runs, nApp, lastRead,
                   history>>

LoopStartChild == StartChild("trial_loop")

(* ParallelComposer: all children are started together ... *)
ParallelFanOut ==
    LET c == "investigation_team" IN
    /\ status[c] = "running"
    /\ ~live[c]
    /\ StartNodes(c, Range(SubAgents(c)))

\* (variant: the join made as soon as one child has ended)
JoinReadyAny(children) ==
    \E ch \in children : status[ch] = "done"

\* ... and the composite ends when every child has ended; one signal is passed
\* on if any child raised one.
JoinReady(children) ==
    \A ch \in children : status[ch] = "done"

ParallelJoin ==
    LET c == "investigation_team" IN
    /\ status[c] = "running"
    /\ live[c]
    /\ JoinReady(Range(SubAgents(c)))
    /\ Finish(c, IF \E ch \in Range(SubAgents(c)) : outcome[ch] = "Terminated"
                 THEN "Terminated" ELSE "Completed")
    /\ UNCHANGED <<state, files, pos, loopVars, agentLocals, seen, runs, nApp,
                   lastRead, history>>

----------------------------------------------------------------------------
(* Agent steps: an agent emits tool calls one after the other, then ends.   *)

\* update_research_data, line 32: the read of the field.  Another agent of
\* the parallel team may run between this read and the write of line 43.
AgentUpdateRead(a, f) ==
    LET raw == ReadCurrentData(state, f)
        c == Normalize(raw)
    IN
    /\ status[a] = "running"
    /\ "update_research_data" \in Tools(a)
    /\ f \in FieldChoices(a)
    /\ TotalCalls(ncalls) < MaxCalls
    /\ lastRead' = IF state[f] = Absent
                   THEN [site |-> "update_research_data", field |-> f,
                         result |-> raw]
                   ELSE lastRead
    /\ IF c = Error
       THEN /\ ncalls' = [ncalls EXCEPT ![a] = ncalls[a] + 1]
            /\ UNCHANGED <<status, cur, fld>>
       ELSE /\ status' = [status EXCEPT ![a] = "in_update"]
            /\ cur' = [cur EXCEPT ![a] = c.s]
            /\ fld' = [fld EXCEPT ![a] = f]
            /\ ncalls' = [ncalls EXCEPT ![a] = ncalls[a] + 1]
    /\ UNCHANGED <<state, files, outcome, pos, live, loopVars, seen, runs,
                   nApp, history>>

\* update_research_data, lines 42-45: the write of the field
AgentUpdateWrite(a) ==
    /\ status[a] = "in_update"
    /\ state' = StateSet(state, fld[a], Str(UpdatedData(cur[a], Text(a))))
    /\ status' = [status EXCEPT ![a] = "running"]
    /\ nApp' = [nApp EXCEPT ![a][fld[a]] = nApp[a][fld[a]] + 1]
    /\ UNCHANGED <<files, outcome, pos, live, loopVars, ncalls, cur, fld, seen,
                   runs, lastRead, history>>

\* set_state_value(field='PROMPT', value=v): one assignment
AgentSetState(a, v) ==
    /\ status[a] = "running"
    /\ "set_state_value" \in Tools(a)
    /\ TotalCalls(ncalls) < MaxCalls
    /\ state' = set_state_value(state, "PROMPT", v)
    /\ ncalls' = [ncalls EXCEPT ![a] = ncalls[a] + 1]
    /\ UNCHANGED <<files, status, outcome, pos, live, loopVars, cur, fld, seen,
                   runs, nApp, lastRead, history>>

\* write_verdict_file(content)
AgentWriteVerdict(a) ==
    LET topic == Topic(state) IN
    /\ status[a] = "running"
    /\ "write_verdict_file" \in Tools(a)
    /\ TotalCalls(ncalls) < MaxCalls
    /\ lastRead' = IF state["PROMPT"] = Absent
                   THEN [site |-> "write_verdict_file", field |-> "PROMPT",
                         result |-> ReadTopic(state)]
                   ELSE lastRead
    /\ files' = IF topic = Error THEN files
                ELSE WriteFile(files, TargetPath(topic.s), Verdict)
    /\ ncalls' = [ncalls EXCEPT ![a] = ncalls[a] + 1]
    /\ UNCHANGED <<state, status, outcome, pos, live, loopVars, cur, fld, seen,
                   runs, nApp, history>>

\* (variant: the failing call aborts the step)
DispatchErrorAbortsStep(a) ==
    /\ status' = [status EXCEPT ![a] = "done"]
    /\ outcome' = [outcome EXCEPT ![a] = "Completed"]
    /\ UNCHANGED <<state, files>>

\* a dispatch that fails is logged and counts as a completed call that did
\* nothing: the store and the files are as before and the step goes on
DispatchErrorEffect(a) ==
    UNCHANGED <<state, files, status, outcome>>

\* the step emits a call the dispatch cannot make: a tool name that is not in
\* the agent's tools, or arguments the tool does not take
AgentDispatchError(a) ==
    /\ status[a] = "running"
    /\ TotalCalls(ncalls) < MaxCalls
    /\ DispatchErrorEffect(a)
    /\ ncalls' = [ncalls EXCEPT ![a] = ncalls[a] + 1]
    /\ failed' = [failed EXCEPT ![a] = failed[a] + 1]
    /\ UNCHANGED <<pos, live, loopVars, cur, fld, seen, runs, nApp, lastRead,
                   toolHistory>>

\* (variant: the step goes on after the signal)
StepAfterSignalGoesOn(a) ==
    /\ status' = status
    /\ outcome' = [outcome EXCEPT ![a] = "Terminated"]

\* the step's dispatch of a tool raised the termination signal: the step
\* stops there and reports the signal
StepAfterSignal(a) ==
    /\ status' = [status EXCEPT ![a] = "done"]
    /\ outcome' = [outcome EXCEPT ![a] = "Terminated"]

\* exit_loop(): raises the termination signal
AgentExitLoop(a) ==
    /\ status[a] = "running"
    /\ outcome[a] = "none"
    /\ "exit_loop" \in Tools(a)
    /\ StepAfterSignal(a)
    /\ UNCHANGED <<state, files, pos, live, loopVars, agentLocals, seen, runs,
                   nApp, lastRead, history>>

\* the step has no more tool calls: it ends, with the signal if it holds one
AgentComplete(a) ==
    /\ status[a] = "running"
    /\ status' = [status EXCEPT ![a] = "done"]
    /\ outcome' = [outcome EXCEPT ![a] =
                      IF outcome[a] = "Terminated" THEN "Terminated"
                      ELSE "Completed"]
    /\ UNCHANGED <<state, files, pos, live, loopVars, agentLocals, seen, runs,
                   nApp, lastRead, history>>

Next ==
    \/ RootStartChild
    \/ RootChildDone
    \/ LoopStartChild
    \/ LoopChildDone
    \/ ParallelFanOut
    \/ ParallelJoin
    \/ \E a \in Agents, f \in Fields : AgentUpdateRead(a, f)
    \/ \E a \in Agents : AgentUpdateWrite(a)
    \/ \E a \in Agents, v \in Topics : AgentSetState(a, v)
    \/ \E a \in Agents : AgentWriteVerdict(a)
    \/ \E a \in Agents : AgentDispatchError(a)
    \/ \E a \in Agents : AgentExitLoop(a)
    \/ \E a \in Agents : AgentComplete(a)

Spec == Init /\ [][Next]_vars

(* The run under the proviso that every agent step and every tool dispatch
   eventually completes and the composers go on whenever a child has ended:
   as long as some step of the workflow is possible, one is taken. *)
FairSpec == Spec /\ WF_vars(Next)

(* The parallel composer with children that may raise the termination signal.
   In agent.py neither child of investigation_team has exit_loop among its
   tools; here a child's dispatch may raise the signal all the same, as a
   child of a ParallelComposer in general may. *)
ChildRaisesSignal(a) ==
    /\ status[a] = "running"
    /\ outcome[a] = "none"
    /\ StepAfterSignal(a)
    /\ UNCHANGED <<state, files, pos, live, loopVars, agentLocals, seen, runs,
                   nApp, lastRead, history>>

NextTeam ==
    \/ Next
    \/ \E a \in Range(investigation_team_sub_agents) : ChildRaisesSignal(a)

TeamSpec == Init /\ [][NextTeam]_vars

----------------------------------------------------------------------------
(* The tools called one after the other on any store: each call runs whole, *)
(* as in a single agent step.                                               *)

\* values a field may hold before the first call
DataValues ==
    {Absent, NoneV, Str(<<>>), Str(<<"x">>), List(<<>>),
     List(<< <<"a">>, <<"b">> >>)}

PromptValues ==
    {Absent, NoneV, Str(<<"N", "e", "r", "o">>), List(<<>>),
     List(<< <<"N", "e", "r", "o">>, <<"M", "a", "o", " ", "Z">> >>)}

\* topic labels: every string of up to MaxLabelLen characters drawn from a
\* letter, the underscore and the space, and two labels with punctuation, a
\* digit and a letter outside ASCII
LabelChars == {"a", "_", " "}

\* one character of a topic: the letter e with an acute accent
EAcute == "e-acute"

Labels ==
    UNION {[1..n -> LabelChars] : n \in 0..MaxLabelLen}
      \cup {<<"-", "M", "a", "o", " ", " ", "Z", "_", "!">>, <<EAcute, "9">>}

ToolStores ==
    {[f \in Fields |-> IF f = "pos_data" THEN d
                       ELSE IF f = "PROMPT" THEN p ELSE Absent] :
        d \in DataValues, p \in PromptValues}
      \cup {[f \in Fields |-> IF f = "PROMPT" THEN Str(l) ELSE Absent] :
               l \in Labels}

NewInfos == {<<"A">>, <<"B">>}

InitTools ==
    /\ state \in ToolStores
    /\ initial = state
    /\ files = {}
    /\ status = [n \in Nodes |-> "idle"]
    /\ outcome = [n \in Nodes |-> "none"]
    /\ pos = [c \in Composites |-> 1]
    /\ live = [c \in Composites |-> FALSE]
    /\ iteration = 0
    /\ loopState = "Idle"
    /\ ncalls = [a \in Agents |-> 0]
    /\ cur = [a \in Agents |-> <<>>]
    /\ fld = [a \in Agents |-> "none"]
    /\ seen = [a \in Agents |-> EmptyStore]
    /\ runs = [n \in Nodes |-> 0]
    /\ nApp = [a \in Agents |-> [f \in Fields |-> 0]]
    /\ calls = [f \in Fields |-> <<>>]
    /\ lastRead = NoRead
    /\ lastTool = NoTool
    /\ failed = [a \in Agents |-> 0]

workflowVars ==
    <<status, outcome, pos, live, iteration, loopState, ncalls, cur, fld,
      seen, runs, nApp, failed>>

CallUpdate(f, t) ==
    /\ lastTool.n < MaxToolCalls
    /\ state' = update_research_data(state, f, t)
    /\ calls' = [calls EXCEPT ![f] = Append(calls[f], t)]
    /\ lastRead' = IF state[f] = Absent
                   THEN [site |-> "update_research_data", field |-> f,
                         result |-> ReadCurrentData(state, f)]
                   ELSE lastRead
    /\ lastTool' = [name |-> "update_research_data", n |-> lastTool.n + 1,
                    field |-> f, arg |-> t, prior |-> state[f].kind,
                    ok |-> (CurrentData(state, f) # Error), path |-> <<>>]
    /\ UNCHANGED <<files, initial, workflowVars>>

CallSet(f, v) ==
    /\ lastTool.n < MaxToolCalls
    /\ state' = set_state_value(state, f, v)
    /\ calls' = [calls EXCEPT ![f] = <<>>]
    /\ initial' = [initial EXCEPT ![f] = Str(v)]
    /\ lastTool' = [name |-> "set_state_value", n |-> lastTool.n + 1,
                    field |-> f, arg |-> v, prior |-> state[f].kind,
                    ok |-> TRUE, path |-> <<>>]
    /\ UNCHANGED <<files, lastRead, workflowVars>>

CallWriteVerdict ==
    LET topic == Topic(state) IN
    /\ lastTool.n < MaxToolCalls
    /\ lastRead' = IF state["PROMPT"] = Absent
                   THEN [site |-> "write_verdict_file", field |-> "PROMPT",
                         result |-> ReadTopic(state)]
                   ELSE lastRead
    /\ files' = IF topic = Error THEN files
                ELSE WriteFile(files, TargetPath(topic.s), Verdict)
    /\ lastTool' = [name |-> "write_verdict_file", n |-> lastTool.n + 1,
                    field |-> "PROMPT", arg |-> Verdict,
                    prior |-> state["PROMPT"].kind,
                    ok |-> (topic # Error),
                    path |-> IF topic = Error THEN <<>>
                             ELSE TargetPath(topic.s)]
    /\ UNCHANGED <<state, calls, initial, workflowVars>>

NextTools ==
    \/ \E f \in {"pos_data", "neg_data"}, t \in NewInfos : CallUpdate(f, t)
    \/ \E f \in {"PROMPT", "pos_data"}, v \in Topics \cup {<<>>} : CallSet(f, v)
    \/ CallWriteVerdict

StoreSpec == InitTools /\ [][NextTools]_vars

----------------------------------------------------------------------------
(* Properties                                                              *)

Researchers == {"admirer_agent", "critic_agent"}
LoopAgents == {"admirer_agent", "critic_agent", "judge_agent"}

\* occurrences of character c in string s
Count(c, s) == Cardinality({i \in 1..Len(s) : s[i] = c})

\* the string held by a field ("" when it holds none)
Held(st, f) == IF st[f].kind = "str" THEN st[f].s ELSE <<>>

\* the field's value before the first append, as a list of zero or one texts
Prior(f) ==
    IF CurrentData(initial, f) = Str(<<>>) THEN <<>>
    ELSE <<CurrentData(initial, f).s>>

(* C1: after any sequence of update_research_data calls to one field, the
   field holds the prior content (if any) and the calls' contents, in call
   order, joined by the separator; on an empty store one append of "A" leaves
   exactly "A". *)
C1_AppendsJoinedBySeparator ==
    \A f \in Fields :
        calls[f] # <<>> => state[f] = Str(Join(SEP, Prior(f) \o calls[f]))

(* C2: once judge_agent has raised the termination signal in its k-th run,
   exactly k executions of the body have started (each of admirer_agent,
   critic_agent, investigation_team and judge_agent has run k times and none
   is started again), k - 1 have completed, and the loop ends Terminated,
   never Exhausted. *)
C2_TerminatedAfterK ==
    outcome["judge_agent"] = "Terminated" =>
        /\ \A n \in Researchers \cup {"investigation_team"} :
              runs[n] = runs["judge_agent"] /\ status[n] = "done"
        /\ iteration = runs["judge_agent"] - 1
        /\ loopState \in {"Running", "Terminated"}
        /\ status["trial_loop"] = "done" => loopState = "Terminated"

C2_Witness ==
    /\ loopState = "Terminated"
    /\ runs["judge_agent"] = 2
    /\ status["root_agent"] = "done"

(* C3: when trial_loop has ended and no step of its body raised the
   termination signal, the body was executed exactly 3 times and the loop is
   Exhausted, not Terminated. *)
C3_ExhaustedAfterMax ==
    (status["trial_loop"] = "done"
        /\ \A a \in LoopAgents : outcome[a] # "Terminated") =>
        /\ loopState = "Exhausted"
        /\ iteration = 3
        /\ \A n \in LoopAgents \cup {"investigation_team"} : runs[n] = 3

C3_Witness ==
    /\ status["trial_loop"] = "done"
    /\ loopState = "Exhausted"
    /\ nApp["judge_agent"]["judge_feedback"] >= 1

(* C4: after the join of investigation_team every append its children have
   made is present in the field it was made to: no write is lost, whatever
   the interleaving of the children's reads and writes. *)
C4_NoLostAppend ==
    status["investigation_team"] = "done" =>
        \A a \in Researchers, f \in Fields :
            Count(Text(a)[1], Held(state, f)) = nApp[a][f]

RECURSIVE Alone(_, _)
\* what n appends of text t leave in a field of an empty store, nothing else
\* running
Alone(t, n) ==
    IF n = 0 THEN EmptyStore
    ELSE update_research_data(Alone(t, n - 1), "pos_data", t)

(* C5: while admirer_agent appends to 'pos_data' only and critic_agent to
   'neg_data' only, each of the two fields holds exactly what its own
   appender's calls would have left there had it run alone, under every
   scheduling; after a join with an append on each side both are non-empty. *)
C5_AppendsDoNotInterfere ==
    nApp["admirer_agent"]["neg_data"] = 0 =>
        /\ state["pos_data"] =
              Alone(Text("admirer_agent"),
                    nApp["admirer_agent"]["pos_data"])["pos_data"]
        /\ state["neg_data"] =
              Alone(Text("critic_agent"),
                    nApp["critic_agent"]["neg_data"])["pos_data"]
        /\ (status["investigation_team"] = "done"
              /\ nApp["admirer_agent"]["pos_data"] >= 1
              /\ nApp["critic_agent"]["neg_data"] >= 1) =>
              Held(state, "pos_data") # <<>> /\ Held(state, "neg_data") # <<>>

C5_Witness ==
    /\ status["investigation_team"] = "done"
    /\ nApp["admirer_agent"]["neg_data"] = 0
    /\ nApp["admirer_agent"]["pos_data"] >= 1
    /\ nApp["critic_agent"]["neg_data"] >= 1

(* C6 as stated: every tool's read of an absent field yields the empty
   string. *)
C6_AbsentReadYieldsEmptyString ==
    lastRead.site # "none" => lastRead.result = Str(<<>>)

(* C6, amended: a tool's read of an absent field never raises; inside
   update_research_data it yields the empty string, inside write_verdict_file
   it yields the default "unknown_subject". *)
C6_AbsentReadYieldsDefault ==
    lastRead.site # "none" =>
        /\ lastRead.result # Error
        /\ lastRead.result =
              IF lastRead.site = "write_verdict_file"
              THEN Str(UnknownSubject) ELSE Str(<<>>)

C6_Witness ==
    /\ lastRead.site = "write_verdict_file"
    /\ \E e \in files : e[1] = TargetPath(UnknownSubject)

(* C7: trial_loop ends Terminated or Exhausted and in both cases reports
   normal completion; no termination signal reaches root_agent; and
   verdict_writer runs after the loop, exactly once in a finished run. *)
C7_LoopConsumesSignal ==
    /\ status["trial_loop"] = "done" =>
          outcome["trial_loop"] = "Completed"
          /\ loopState \in {"Terminated", "Exhausted"}
    /\ outcome["root_agent"] # "Terminated"
    /\ \A n \in Nodes \ LoopAgents : outcome[n] # "Terminated"
    /\ runs["verdict_writer"] <= 1
    /\ status["verdict_writer"] # "idle" => status["trial_loop"] = "done"
    /\ status["root_agent"] = "done" =>
          /\ runs["verdict_writer"] = 1
          /\ outcome["verdict_writer"] = "Completed"
          /\ outcome["root_agent"] = "Completed"

C7_Witness ==
    /\ status["root_agent"] = "done"
    /\ loopState = "Terminated"
    /\ runs["verdict_writer"] = 1

(* C8: root_agent starts trial_loop only when inquiry_agent has ended and
   verdict_writer only when trial_loop has ended; every step of the loop was
   given the 'PROMPT' the inquiry left, and verdict_writer was given the
   store with every write of the loop in it. *)
C8_RootRunsInOrder ==
    /\ status["trial_loop"] # "idle" => status["inquiry_agent"] = "done"
    /\ status["verdict_writer"] # "idle" =>
          /\ status["trial_loop"] = "done"
          /\ \A a \in LoopAgents : status[a] \in {"idle", "done"}
          /\ seen["verdict_writer"] = state
    /\ \A a \in LoopAgents \cup {"verdict_writer"} :
          status[a] # "idle" => seen[a]["PROMPT"] = state["PROMPT"]

C8_Witness ==
    /\ status["verdict_writer"] = "running"
    /\ state["PROMPT"] # Absent
    /\ state["neg_data"] # Absent
    /\ state["judge_feedback"] # Absent

(* C9: while judge_agent is running, both researchers have ended the run of
   the same iteration, the team has joined, and the judge was given the
   research fields with every append of the two in them. *)
C9_JudgeAfterJoin ==
    status["judge_agent"] \in {"running", "in_update"} =>
        /\ status["investigation_team"] = "done"
        /\ runs["investigation_team"] = runs["judge_agent"]
        /\ \A r \in Researchers :
              status[r] = "done" /\ runs[r] = runs["judge_agent"]
        /\ \A f \in {"pos_data", "neg_data"} : seen["judge_agent"][f] = state[f]

C9_Witness ==
    /\ status["judge_agent"] = "running"
    /\ runs["judge_agent"] = 2
    /\ nApp["admirer_agent"]["pos_data"] >= 1
    /\ nApp["critic_agent"]["neg_data"] >= 1

(* C10: a step that has raised the termination signal has ended and reports
   the signal; from then on it dispatches no tool call and completes no
   append, so it leaves the store as it is. *)
C10_NoCallAfterSignal ==
    [][\A a \in Agents :
          (outcome[a] = "Terminated" /\ runs'[a] = runs[a]) =>
              /\ status[a] = "done" /\ status'[a] = "done"
              /\ outcome'[a] = "Terminated"
              /\ ncalls'[a] = ncalls[a]
              /\ nApp'[a] = nApp[a]]_vars

C10_Witness ==
    /\ outcome["judge_agent"] = "Terminated"
    /\ nApp["judge_agent"]["judge_feedback"] >= 1
    /\ TotalCalls(ncalls) < MaxCalls

(* C11: a tool dispatch that fails changes neither the store nor the files,
   and leaves the step running (and every other node as it was), so the step
   can emit its remaining calls and the workflow goes on. *)
C11_DispatchErrorIsNoOp ==
    [][failed' # failed =>
          /\ state' = state
          /\ files' = files
          /\ status' = status
          /\ outcome' = outcome
          /\ \A a \in Agents :
                failed'[a] # failed[a] =>
                    status'[a] = "running" /\ failed'[a] = failed[a] + 1]_vars

C11_Witness ==
    /\ failed["judge_agent"] >= 1
    /\ runs["judge_agent"] = 1
    /\ outcome["judge_agent"] = "Terminated"
    /\ nApp["judge_agent"]["judge_feedback"] >= 1
    /\ status["root_agent"] = "done"
    /\ outcome["root_agent"] = "Completed"

(* C12: a set_state_value(field, v) call, whatever the field held before
   (nothing, None, a string or a list), leaves exactly v to be read from the
   field and every other field as it was, and the same call made again would
   leave the store as it is. *)
C12_OverwriteReplaces ==
    [][(lastTool'.n = lastTool.n + 1 /\ lastTool'.name = "set_state_value") =>
          /\ StateGet(state', lastTool'.field, Str(<<>>)) = Str(lastTool'.arg)
          /\ \A g \in Fields \ {lastTool'.field} : state'[g] = state[g]
          /\ set_state_value(state', lastTool'.field, lastTool'.arg) = state'
      ]_vars

C12_Witness ==
    /\ lastTool.name = "set_state_value"
    /\ lastTool.prior = "list"
    /\ lastTool.field = "pos_data"
    /\ lastTool.arg # <<>>
    /\ state["pos_data"] = Str(lastTool.arg)

TeamChildren == Range(investigation_team_sub_agents)

(* C13: when a child of investigation_team has raised the termination signal
   while a sibling is still in flight, the team stays running and nothing is
   reported to trial_loop; the team ends only when every child has ended (so
   no write of a sibling is cut off), it then reports the signal exactly when
   some child raised one, and trial_loop ends Terminated on it without
   running judge_agent for that iteration. *)
C13_JoinBeforeSignal ==
    /\ ((\E k \in TeamChildren : outcome[k] = "Terminated")
          /\ (\E k \in TeamChildren : status[k] # "done")) =>
          /\ status["investigation_team"] = "running"
          /\ outcome["investigation_team"] = "none"
          /\ loopState = "Running"
    /\ status["investigation_team"] = "done" =>
          /\ \A k \in TeamChildren : status[k] = "done"
          /\ outcome["investigation_team"] = "Terminated" <=>
                \E k \in TeamChildren : outcome[k] = "Terminated"
    /\ (outcome["investigation_team"] = "Terminated"
          /\ status["trial_loop"] = "done") =>
          /\ loopState = "Terminated"
          /\ runs["judge_agent"] = runs["investigation_team"] - 1
    /\ outcome["root_agent"] # "Terminated"

C13_Witness ==
    /\ outcome["admirer_agent"] = "Terminated"
    /\ status["critic_agent"] = "in_update"
    /\ state["neg_data"] = Absent

IsPrefix(p, s) ==
    /\ Len(p) <= Len(s)
    /\ SubSeq(s, 1, Len(p)) = p

\* what a field held, as one string: a list joined with "\n", None and a
\* missing field as ""
AsString(v) ==
    IF v.kind = "str" THEN v.s
    ELSE IF v.kind = "list" THEN Join(<<"\n">>, v.l)
    ELSE <<>>

(* C14: after any call of update_research_data the field holds a single
   string, of which the field's previous value, taken as one string (a list
   joined with "\n"), is a prefix; and when the previous value was a list the
   new value is that joined string, then the separator, then the new text. *)
C14_AppendNormalizesList ==
    [][(lastTool'.n = lastTool.n + 1
          /\ lastTool'.name = "update_research_data") =>
          LET old == state[lastTool'.field]
              new == state'[lastTool'.field]
          IN  /\ new.kind = "str"
              /\ IsPrefix(AsString(old), new.s)
              /\ old.kind = "list" =>
                    new.s = Join(<<"\n">>, old.l) \o SEP \o lastTool'.arg
      ]_vars

C14_Witness ==
    /\ lastTool.name = "update_research_data"
    /\ lastTool.n = 1
    /\ lastTool.prior = "list"
    /\ initial["pos_data"] = List(<< <<"a">>, <<"b">> >>)
    /\ state["pos_data"] = Str(<<"a", "\n", "b">> \o SEP \o lastTool.arg)

RECURSIVE WordsFrom(_, _)
\* the maximal runs of letters and digits of s, in order (w: the run being
\* read)
WordsFrom(s, w) ==
    LET done == IF w = <<>> THEN <<>> ELSE <<w>>
    IN  IF s = <<>> THEN done
        ELSE IF s[1] \in Alnum THEN WordsFrom(Tail(s), Append(w, s[1]))
        ELSE done \o WordsFrom(Tail(s), <<>>)

DotTxt == <<".", "t", "x", "t">>

(* C18: whenever write_verdict_file has written its file, the path is
   "court_records" and a file name ending in ".txt"; the name before ".txt"
   is the runs of letters and digits of the topic joined by single "_", so it
   holds only ASCII letters, digits and "_", has no two "_" in a row and no
   "_" at either end; deriving a name from that name gives it back; and the
   file at that path holds the content. *)
C18_DerivedNameIsSafe ==
    (lastTool.name = "write_verdict_file" /\ lastTool.ok) =>
        LET topic == IF state["PROMPT"] = Absent THEN UnknownSubject
                     ELSE IF state["PROMPT"].kind = "list"
                          THEN state["PROMPT"].l[Len(state["PROMPT"].l)]
                     ELSE state["PROMPT"].s
            file == lastTool.path[2]
            name == SubSeq(file, 1, Len(file) - Len(DotTxt))
        IN  /\ Len(lastTool.path) = 2
            /\ lastTool.path[1] = "court_records"
            /\ Len(file) >= Len(DotTxt)
            /\ file = name \o DotTxt
            /\ name = Join(<<"_">>, WordsFrom(topic, <<>>))
            /\ \A i \in 1..Len(name) : name[i] \in Alnum \cup {"_"}
            /\ \A i \in 1..(Len(name) - 1) :
                  ~(name[i] = "_" /\ name[i + 1] = "_")
            /\ name # <<>> => (name[1] # "_" /\ name[Len(name)] # "_")
            /\ CleanName(name) = name
            /\ <<lastTool.path, lastTool.arg>> \in files

C18_Witness ==
    /\ lastTool.name = "write_verdict_file"
    /\ lastTool.ok
    /\ state["PROMPT"] = Str(<<"-", "M", "a", "o", " ", " ", "Z", "_", "!">>)
    /\ lastTool.path = <<"court_records",
                         <<"M", "a", "o", "_", "Z", ".", "t", "x", "t">> >>

(* C15: the iteration counter of trial_loop is always between 0 and 3 and
   is 0 until the loop has started; the body is started at most 3 times, and
   the counter is the number of bodies started or one less (the body in
   progress, or the one the judge ended with exit_loop); a step leaves the
   counter as it is or adds one, and adds one only on the end of a body whose
   last child, judge_agent, has completed without the signal. *)
C15_IterationCounterBounded ==
    /\ [](/\ iteration \in 0..3
          /\ status["trial_loop"] = "idle" => iteration = 0
          /\ runs["investigation_team"] <= 3
          /\ iteration <= runs["investigation_team"]
          /\ runs["investigation_team"] <= iteration + 1
          /\ iteration <= runs["judge_agent"])
    /\ [][/\ iteration' \in {iteration, iteration + 1}
          /\ iteration' = iteration + 1 =>
                /\ status["judge_agent"] = "done"
                /\ outcome["judge_agent"] = "Completed"
                /\ runs["judge_agent"] = iteration + 1
                /\ runs["investigation_team"] = iteration + 1]_vars

C15_Witness ==
    /\ iteration = 2
    /\ runs["investigation_team"] = 3
    /\ status["investigation_team"] = "running"
    /\ loopState = "Running"

InFlight(a) == status[a] \in {"running", "in_update"}

(* C16: the two researchers always run the same iteration; while one of them
   is in flight in iteration n + 1, judge_agent is not in flight and has
   completed its run of iteration n, and the researcher was given
   'judge_feedback' as the store holds it, with every append of the judge in
   it; while judge_agent is in flight no researcher is. *)
C16_IterationsInOrder ==
    /\ runs["admirer_agent"] = runs["critic_agent"]
    /\ \A r \in Researchers :
          InFlight(r) =>
              /\ ~InFlight("judge_agent")
              /\ runs["judge_agent"] = runs[r] - 1
              /\ runs[r] > 1 =>
                    /\ status["judge_agent"] = "done"
                    /\ outcome["judge_agent"] = "Completed"
              /\ seen[r]["judge_feedback"] = state["judge_feedback"]
              /\ nApp["judge_agent"]["judge_feedback"] = 0 =>
                    state["judge_feedback"] = Absent
              /\ nApp["judge_agent"]["judge_feedback"] > 0 =>
                    /\ state["judge_feedback"].kind = "str"
                    /\ Len(state["judge_feedback"].s) =
                          nApp["judge_agent"]["judge_feedback"]
                             * Len(UpdatedData(<<>>, Text("judge_agent")))
    /\ InFlight("judge_agent") => \A r \in Researchers : ~InFlight(r)

C16_Witness ==
    /\ status["admirer_agent"] = "running"
    /\ status["critic_agent"] = "in_update"
    /\ runs["admirer_agent"] = 2
    /\ nApp["judge_agent"]["judge_feedback"] = 1
    /\ seen["critic_agent"]["judge_feedback"] =
           Str(UpdatedData(<<>>, Text("judge_agent")))

(* C19: exit_loop is a tool of judge_agent alone; no researcher and not the
   team ever ends with the termination signal; so whenever the team has
   ended, both researchers have completed normally, and once the loop has
   gone past the team of an iteration judge_agent is run in it; and when the
   loop is Terminated, judge_agent raised the signal in the iteration the
   team last ran. *)
C19_SignalOnlyFromJudge ==
    /\ \A a \in Agents : "exit_loop" \in Tools(a) <=> a = "judge_agent"
    /\ \A n \in Researchers \cup {"investigation_team"} :
          outcome[n] # "Terminated"
    /\ status["investigation_team"] = "done" =>
          \A r \in Researchers :
              /\ status[r] = "done"
              /\ outcome[r] = "Completed"
              /\ runs[r] = runs["investigation_team"]
    /\ status["trial_loop"] = "done" =>
          runs["judge_agent"] = runs["investigation_team"]
    /\ runs["investigation_team"] - 1 <= runs["judge_agent"]
    /\ loopState = "Terminated" =>
          /\ outcome["judge_agent"] = "Terminated"
          /\ runs["judge_agent"] = runs["investigation_team"]
          /\ runs["judge_agent"] >= 1

C19_Witness ==
    /\ loopState = "Terminated"
    /\ runs["judge_agent"] = 1
    /\ \A r \in Researchers : outcome[r] = "Completed" /\ runs[r] = 1
    /\ nApp["admirer_agent"]["pos_data"] = 1
    /\ nApp["critic_agent"]["neg_data"] = 1

Overwriters == {a \in Agents : "set_state_value" \in Tools(a)}

(* C20: set_state_value is a tool of inquiry_agent alone; at most one step
   that can call it is ever in flight, and while inquiry_agent is in flight
   no other agent is and the parallel team has not started; the team starts
   only after inquiry_agent has ended; and 'PROMPT' changes only in a step of
   inquiry_agent, so what it holds afterwards is the value of that agent's
   last call. *)
C20_NoConcurrentOverwrite ==
    /\ [](/\ Overwriters = {"inquiry_agent"}
          /\ Cardinality({a \in Overwriters : InFlight(a)}) <= 1
          /\ InFlight("inquiry_agent") =>
                /\ \A b \in Agents \ {"inquiry_agent"} : status[b] = "idle"
                /\ status["investigation_team"] = "idle"
          /\ status["investigation_team"] # "idle" =>
                status["inquiry_agent"] = "done")
    /\ [][state'["PROMPT"] # state["PROMPT"] =>
             /\ status["inquiry_agent"] = "running"
             /\ ncalls'["inquiry_agent"] = ncalls["inquiry_agent"] + 1
             /\ \A b \in Agents \ {"inquiry_agent"} : ~InFlight(b)]_vars

C20_Witness ==
    /\ status["inquiry_agent"] = "running"
    /\ ncalls["inquiry_agent"] = 2
    /\ state["PROMPT"] \in {Str(t) : t \in Topics}

RunCompleted ==
    /\ status["root_agent"] = "done"
    /\ outcome["root_agent"] = "Completed"
    /\ \A n \in Nodes : status[n] = "done" /\ outcome[n] # "none"
    /\ \A n \in Nodes \ {"judge_agent"} : outcome[n] = "Completed"
    /\ loopState \in {"Terminated", "Exhausted"}
    /\ runs["investigation_team"] \in 1..3
    /\ runs["verdict_writer"] = 1

(* C17: every run of root_agent in which a possible step is eventually taken
   reaches the state where root_agent has completed: every node has ended,
   none but judge_agent with the termination signal, trial_loop is Terminated
   or Exhausted after 1 to 3 executions of its body, and verdict_writer has
   run and ended. *)
C17_RunEventuallyCompletes ==
    <>RunCompleted

C17_Witness ==
    /\ RunCompleted
    /\ loopState = "Exhausted"
    /\ \A a \in LoopAgents : outcome[a] = "Completed" /\ runs[a] = 3
    /\ files # {}

====
